---- MODULE Spec2Model ----
(***************************************************************************)
(* The POST handler of the news-snippet generator (the /api/generate       *)
(* route), as a state machine of one request: body validation, the         *)
(* markup fetch with its retry loop, metadata resolution, the image fetch  *)
(* and the render.  Spec models the handler with the retry loop            *)
(* (src/unnamed/part_001, lines 6-484); SpecRoute models the handler of    *)
(* src/app/api/generate/route.ts, which fetches the markup once.           *)
(***************************************************************************)
EXTENDS Integers, Sequences, FiniteSets, TLC

VARIABLES
    pc,              \* position of the handler
    body,            \* the request body, by kind
    includeAuthor,   \* destructured flag (default true)
    includeDate,     \* destructured flag (default true)
    attempt,         \* loop variable of the retry loop
    htmlResponse,    \* status of the response held by htmlResponse, 0 = undefined
    lastError,       \* message of the error held by lastError, "" = undefined
    outcomes,        \* history: how each markup-fetch attempt ended
    fetchCount,      \* history: markup fetches started
    sleeps,          \* history: backoff delays started, in ms
    sleepsDone,      \* history: backoff delays that ran to their end
    markup,          \* the tags of the fetched document (NoMarkup before)
    title,           \* resolved title
    imageUrl,        \* resolved image URL
    imageFetchCount, \* history: image fetches started
    imageOutcome,    \* history: how the image fetch ended, 0 = not ended, -1 = threw
    steps,           \* history: the pipeline steps run, each with whether it failed
    responses,       \* history: the responses returned
    res,             \* the field resolver on one document, step by step (SpecResolve)
    card,            \* the text and layout of one card, step by step (SpecCard)
    reqs             \* two requests handled concurrently (SpecTwo)

\* the state of the parts that are modelled on their own
apart == <<res, card, reqs>>

\* the state of the one request of Spec and SpecRoute
handler == <<pc, body, includeAuthor, includeDate, attempt, htmlResponse, lastError,
             outcomes, fetchCount, sleeps, sleepsDone, markup, title, imageUrl,
             imageFetchCount, imageOutcome, steps, responses>>

vars == <<pc, body, includeAuthor, includeDate, attempt, htmlResponse, lastError,
          outcomes, fetchCount, sleeps, sleepsDone, markup, title, imageUrl,
          imageFetchCount, imageOutcome, steps, responses, res, card, reqs>>

(***************************************************************************)
(* Bounds and inputs                                                       *)
(***************************************************************************)

\* number of distinct failure reasons a fetch can reject with
MaxReasons == 2

Reasons == {"reason" \o ToString(i) : i \in 1..MaxReasons}

\* status codes an origin answers with: 2xx, 3xx, client errors, server errors
Statuses == {200, 302, 401, 403, 404, 429, 500, 503}

\* request bodies: not JSON at all, the JSON value null, an object without url,
\* url a number, url the empty string, url a string that is no URL, a valid url
Bodies == {"unparsable", "null", "no_url", "url_number", "url_empty",
           "url_malformed", "url_valid"}

NoMarkup == [ogImage |-> "", twImage |-> "", ogImageUrl |-> "",
             ogTitle |-> "", twTitle |-> "", docTitle |-> ""]

\* the documents an origin serves: each tag is absent/empty ("") or has a value
Markups == [ogImage : {"", "og.jpg"}, twImage : {"", "tw.jpg"},
            ogImageUrl : {"", "ogurl.jpg"}, ogTitle : {"", "OG Title"},
            twTitle : {"", "TW Title"}, docTitle : {"", "Doc Title"}]

(***************************************************************************)
(* Pure parts of the handler                                               *)
(***************************************************************************)

maxRetries == 3

\* Response.ok
IsOk(status) == status >= 200 /\ status <= 299

\* line 68: htmlResponse.ok || (status >= 400 && status < 500)
StopsLoop(status) == IsOk(status) \/ (status >= 400 /\ status < 500)

\* line 73: status >= 500 && attempt < maxRetries - 1
RetriesResponse(status, a) == status >= 500 /\ a < maxRetries - 1

\* line 82: attempt < maxRetries - 1
RetriesError(a) == a < maxRetries - 1

\* what the comment of line 67 announces: 429 is retried like a 5xx
AfterResponse_Retry429(status, a) ==
    IF IsOk(status) \/ (status >= 400 /\ status < 500 /\ status # 429) THEN "break"
    ELSE IF (status >= 500 \/ status = 429) /\ a < maxRetries - 1 THEN "retry"
    ELSE "break"

\* lines 68-79: what the loop does with a response
AfterResponse(status, a) ==
    IF StopsLoop(status) THEN "break"
    ELSE IF RetriesResponse(status, a) THEN "retry"
    ELSE "break"

NextAttempt_Stuck(a) == a

\* line 45: attempt++
NextAttempt(a) == a + 1

LoopContinues_OffByOne(a) == a <= maxRetries

\* line 45: attempt < maxRetries
LoopContinues(a) == a < maxRetries

RECURSIVE Pow2(_)
Pow2(n) == IF n = 0 THEN 1 ELSE 2 * Pow2(n - 1)

backoffMs_Linear(a) == a * 1000

\* lines 74, 83: Math.pow(2, attempt) * 1000
backoffMs(a) == Pow2(a) * 1000

KeepError_First(prev, e) == IF prev = "" THEN e ELSE prev

\* line 81: lastError = error
KeepError(prev, e) == e

\* line 93: lastError instanceof Error ? lastError.message : 'Network error'
ErrorText(e) == IF e # "" THEN e ELSE "Network error"

\* a JSON response: { error } with a status, or { image, metadata } with 200
ErrorResponse(status, message) ==
    [status |-> status, error |-> message, image |-> "", metadata |-> <<>>]

SuccessResponse(image, meta) ==
    [status |-> 200, error |-> <<>>, image |-> image, metadata |-> meta]

UrlRequired == <<"URL is required">>
InvalidUrlFormat == <<"Invalid URL format">>
Unexpected == <<"An unexpected error occurred while generating the image">>
Blocked == <<"This news site is blocking automated access (403). Try a different article.">>
NoImageFound == <<"No article image found. Please try a different article.">>
ImageFetchFailed == <<"Failed to fetch article image">>
FailedToFetch(detail) == <<"Failed to fetch article: ", detail>>

\* JavaScript's a || b on strings: the first non-empty one
Or(a, b) == IF a # "" THEN a ELSE b

\* lines 119-122
ResolveTitle(m) == Or(m.ogTitle, Or(m.twTitle, Or(m.docTitle, "Untitled Article")))

\* lines 124-127
ResolveImageUrl(m) == Or(m.ogImage, Or(m.twImage, Or(m.ogImageUrl, "")))

Step(name, failed) == [name |-> name, failed |-> failed]

(***************************************************************************)
(* Init: a request has arrived, nothing has run                            *)
(***************************************************************************)

Init ==
    /\ pc = "start"
    /\ body \in Bodies
    /\ includeAuthor \in BOOLEAN
    /\ includeDate \in BOOLEAN
    /\ attempt = 0
    /\ htmlResponse = 0
    /\ lastError = ""
    /\ outcomes = <<>>
    /\ fetchCount = 0
    /\ sleeps = <<>>
    /\ sleepsDone = 0
    /\ markup = NoMarkup
    /\ title = ""
    /\ imageUrl = ""
    /\ imageFetchCount = 0
    /\ imageOutcome = 0
    /\ steps = <<>>
    /\ responses = <<>>
    /\ res = <<>>
    /\ card = <<>>
    /\ reqs = <<>>

\* return NextResponse.json(...): the handler ends with this response
Return(r) ==
    /\ responses' = Append(responses, r)
    /\ pc' = "done"

\* the step that is running has failed
FailLast(ss) == [ss EXCEPT ![Len(ss)].failed = TRUE]

(***************************************************************************)
(* Body validation, lines 7-25 (and the catch of lines 477-483)            *)
(***************************************************************************)

\* the response the validation ends with, <<>> when the url is accepted
ValidateBody(b) ==
    CASE b \in {"unparsable", "null"} -> <<ErrorResponse(500, Unexpected)>>
      [] b \in {"no_url", "url_number", "url_empty"} -> <<ErrorResponse(400, UrlRequired)>>
      [] b = "url_malformed" -> <<ErrorResponse(400, InvalidUrlFormat)>>
      [] OTHER -> <<>>

ParseBody ==
    /\ pc = "start"
    /\ steps' = Append(steps, Step("validate", ValidateBody(body) # <<>>))
    /\ IF ValidateBody(body) # <<>>
          THEN Return(ValidateBody(body)[1])
          ELSE pc' = "loop" /\ responses' = responses
    /\ UNCHANGED <<body, includeAuthor, includeDate, attempt, htmlResponse, lastError,
                   outcomes, fetchCount, sleeps, sleepsDone, markup, title, imageUrl,
                   imageFetchCount, imageOutcome>>
    /\ UNCHANGED apart

(***************************************************************************)
(* The retry loop, lines 40-88                                             *)
(***************************************************************************)

Responded(s) == [kind |-> "response", status |-> s, reason |-> ""]
Threw(r) == [kind |-> "throw", status |-> 0, reason |-> r]

\* line 45 holds, line 47 starts a fetch
StartFetch ==
    /\ pc = "loop"
    /\ LoopContinues(attempt)
    /\ fetchCount' = fetchCount + 1
    /\ steps' = IF attempt = 0 THEN Append(steps, Step("fetch", FALSE)) ELSE steps
    /\ pc' = "fetching"
    /\ UNCHANGED <<body, includeAuthor, includeDate, attempt, htmlResponse, lastError,
                   outcomes, sleeps, sleepsDone, markup, title, imageUrl,
                   imageFetchCount, imageOutcome, responses>>
    /\ UNCHANGED apart

\* line 45 fails: the loop ends
LoopExit ==
    /\ pc = "loop"
    /\ ~LoopContinues(attempt)
    /\ pc' = "afterLoop"
    /\ UNCHANGED <<body, includeAuthor, includeDate, attempt, htmlResponse, lastError,
                   outcomes, fetchCount, sleeps, sleepsDone, markup, title, imageUrl,
                   imageFetchCount, imageOutcome, steps, responses>>
    /\ UNCHANGED apart

\* the fetch of line 47 resolves with a response of status s: lines 68-79
FetchResponds(s) ==
    /\ pc = "fetching"
    /\ htmlResponse' = s
    /\ outcomes' = Append(outcomes, Responded(s))
    /\ IF AfterResponse(s, attempt) = "retry"
          THEN sleeps' = Append(sleeps, backoffMs(attempt)) /\ pc' = "backoff"
          ELSE sleeps' = sleeps /\ pc' = "afterLoop"
    /\ UNCHANGED <<body, includeAuthor, includeDate, attempt, lastError, fetchCount,
                   sleepsDone, markup, title, imageUrl, imageFetchCount, imageOutcome,
                   steps, responses>>
    /\ UNCHANGED apart

\* the fetch of line 47 rejects with reason r: lines 80-87
FetchThrows(r) ==
    /\ pc = "fetching"
    /\ lastError' = KeepError(lastError, r)
    /\ outcomes' = Append(outcomes, Threw(r))
    /\ IF RetriesError(attempt)
          THEN sleeps' = Append(sleeps, backoffMs(attempt)) /\ pc' = "backoff"
               /\ attempt' = attempt
          ELSE sleeps' = sleeps /\ pc' = "loop" /\ attempt' = NextAttempt(attempt)
    /\ UNCHANGED <<body, includeAuthor, includeDate, htmlResponse, fetchCount,
                   sleepsDone, markup, title, imageUrl, imageFetchCount, imageOutcome,
                   steps, responses>>
    /\ UNCHANGED apart

\* the timer of line 76 or 85 fires; the loop goes to its next iteration
BackoffDone ==
    /\ pc = "backoff"
    /\ sleepsDone' = sleepsDone + 1
    /\ attempt' = NextAttempt(attempt)
    /\ pc' = "loop"
    /\ UNCHANGED <<body, includeAuthor, includeDate, htmlResponse, lastError, outcomes,
                   fetchCount, sleeps, markup, title, imageUrl, imageFetchCount,
                   imageOutcome, steps, responses>>
    /\ UNCHANGED apart

(***************************************************************************)
(* After the loop, lines 90-113                                            *)
(***************************************************************************)

FetchVerdict_Always500(resp, err) ==
    IF resp = 0 THEN <<ErrorResponse(500, FailedToFetch(ErrorText(err)))>>
    ELSE IF resp = 403 THEN <<ErrorResponse(403, Blocked)>>
    ELSE IF ~IsOk(resp) THEN <<ErrorResponse(500, FailedToFetch(ToString(resp)))>>
    ELSE <<>>

\* the response the fetch ends with, <<>> when the markup response is usable;
\* the status text that follows the status in the message is left out
FetchVerdict(resp, err) ==
    IF resp = 0 THEN <<ErrorResponse(500, FailedToFetch(ErrorText(err)))>>
    ELSE IF resp = 403 THEN <<ErrorResponse(403, Blocked)>>
    ELSE IF ~IsOk(resp) THEN <<ErrorResponse(resp, FailedToFetch(ToString(resp)))>>
    ELSE <<>>

CheckResponse ==
    /\ pc = "afterLoop"
    /\ IF FetchVerdict(htmlResponse, lastError) # <<>>
          THEN /\ Return(FetchVerdict(htmlResponse, lastError)[1])
               /\ steps' = FailLast(steps)
          ELSE /\ pc' = "readBody"
               /\ UNCHANGED <<steps, responses>>
    /\ UNCHANGED <<body, includeAuthor, includeDate, attempt, htmlResponse, lastError,
                   outcomes, fetchCount, sleeps, sleepsDone, markup, title, imageUrl,
                   imageFetchCount, imageOutcome>>
    /\ UNCHANGED apart

(***************************************************************************)
(* Reading and resolving the markup, lines 115-262                         *)
(***************************************************************************)

\* await htmlResponse.text() rejects: the catch of lines 477-483
BodyReadThrows ==
    /\ pc = "readBody"
    /\ Return(ErrorResponse(500, Unexpected))
    /\ steps' = FailLast(steps)
    /\ UNCHANGED <<body, includeAuthor, includeDate, attempt, htmlResponse, lastError,
                   outcomes, fetchCount, sleeps, sleepsDone, markup, title, imageUrl,
                   imageFetchCount, imageOutcome>>
    /\ UNCHANGED apart

MissingImage_Unchecked(u) == FALSE

\* line 257: !imageUrl
MissingImage(u) == u = ""

\* the markup m arrives; the fields are resolved; without an image URL the request
\* ends (lines 257-262), with one the image fetch of line 267 starts
Resolve(m) ==
    /\ pc = "readBody"
    /\ markup' = m
    /\ title' = ResolveTitle(m)
    /\ imageUrl' = ResolveImageUrl(m)
    /\ IF MissingImage(ResolveImageUrl(m))
          THEN /\ Return(ErrorResponse(400, NoImageFound))
               /\ steps' = Append(steps, Step("resolve", TRUE))
               /\ imageFetchCount' = imageFetchCount
          ELSE /\ pc' = "imageFetching"
               /\ steps' = steps \o <<Step("resolve", FALSE), Step("imageFetch", FALSE)>>
               /\ imageFetchCount' = imageFetchCount + 1
               /\ responses' = responses
    /\ UNCHANGED <<body, includeAuthor, includeDate, attempt, htmlResponse, lastError,
                   outcomes, fetchCount, sleeps, sleepsDone, imageOutcome>>
    /\ UNCHANGED apart

(***************************************************************************)
(* The image fetch, lines 264-278                                          *)
(***************************************************************************)

\* the image fetch ends with a status, or with -1 when it rejects
ImageOutcomes == Statuses \cup {-1}

ImageFails_ThrowOnly(o) == o = -1

\* lines 268-272: a rejected fetch or a response that is not ok
ImageFails(o) == o = -1 \/ ~IsOk(o)

ImageSettles_NoReturn(o) ==
    /\ pc = "imageFetching"
    /\ imageOutcome' = o
    /\ IF ImageFails(o)
          THEN /\ responses' = Append(responses, ErrorResponse(500, ImageFetchFailed))
               /\ pc' = "imageBody"
               /\ steps' = FailLast(steps)
          ELSE /\ pc' = "imageBody"
               /\ UNCHANGED <<steps, responses>>
    /\ UNCHANGED <<body, includeAuthor, includeDate, attempt, htmlResponse, lastError,
                   outcomes, fetchCount, sleeps, sleepsDone, markup, title, imageUrl,
                   imageFetchCount>>
    /\ UNCHANGED apart

\* the fetch of line 267 ends with outcome o
ImageSettles(o) ==
    /\ pc = "imageFetching"
    /\ imageOutcome' = o
    /\ IF ImageFails(o)
          THEN /\ Return(ErrorResponse(500, ImageFetchFailed))
               /\ steps' = FailLast(steps)
          ELSE /\ pc' = "imageBody"
               /\ UNCHANGED <<steps, responses>>
    /\ UNCHANGED <<body, includeAuthor, includeDate, attempt, htmlResponse, lastError,
                   outcomes, fetchCount, sleeps, sleepsDone, markup, title, imageUrl,
                   imageFetchCount>>
    /\ UNCHANGED apart

\* line 271: await imageResponse.arrayBuffer() resolves; the render starts
ImageBodyArrives ==
    /\ pc = "imageBody"
    /\ pc' = "render"
    /\ steps' = Append(steps, Step("render", FALSE))
    /\ UNCHANGED <<body, includeAuthor, includeDate, attempt, htmlResponse, lastError,
                   outcomes, fetchCount, sleeps, sleepsDone, markup, title, imageUrl,
                   imageFetchCount, imageOutcome, responses>>
    /\ UNCHANGED apart

\* line 271 rejects: the catch of lines 272-278
ImageBodyThrows ==
    /\ pc = "imageBody"
    /\ imageOutcome' = -1
    /\ Return(ErrorResponse(500, ImageFetchFailed))
    /\ steps' = FailLast(steps)
    /\ UNCHANGED <<body, includeAuthor, includeDate, attempt, htmlResponse, lastError,
                   outcomes, fetchCount, sleeps, sleepsDone, markup, title, imageUrl,
                   imageFetchCount>>
    /\ UNCHANGED apart

(***************************************************************************)
(* The render, lines 280-475, and the catch of lines 477-483               *)
(***************************************************************************)

\* the card is composited and returned with the metadata (lines 466-475)
RenderSucceeds ==
    /\ pc = "render"
    /\ Return(SuccessResponse("data:image/png;base64", <<title, imageUrl>>))
    /\ UNCHANGED <<body, includeAuthor, includeDate, attempt, htmlResponse, lastError,
                   outcomes, fetchCount, sleeps, sleepsDone, markup, title, imageUrl,
                   imageFetchCount, imageOutcome, steps>>
    /\ UNCHANGED apart

\* a step of the render throws (the bytes are no image, say)
RenderThrows ==
    /\ pc = "render"
    /\ Return(ErrorResponse(500, Unexpected))
    /\ steps' = FailLast(steps)
    /\ UNCHANGED <<body, includeAuthor, includeDate, attempt, htmlResponse, lastError,
                   outcomes, fetchCount, sleeps, sleepsDone, markup, title, imageUrl,
                   imageFetchCount, imageOutcome>>
    /\ UNCHANGED apart

Next ==
    \/ ParseBody
    \/ StartFetch
    \/ LoopExit
    \/ \E s \in Statuses : FetchResponds(s)
    \/ \E r \in Reasons : FetchThrows(r)
    \/ BackoffDone
    \/ CheckResponse
    \/ BodyReadThrows
    \/ \E m \in Markups : Resolve(m)
    \/ \E o \in ImageOutcomes : ImageSettles(o)
    \/ ImageBodyArrives
    \/ ImageBodyThrows
    \/ RenderSucceeds
    \/ RenderThrows

Spec == Init /\ [][Next]_vars

\* every step of the handler that can run does run: the synchronous steps run
\* to their next await, and every awaited fetch, body read, timer and render
\* settles
SpecFair == Init /\ [][Next]_vars /\ WF_vars(Next)

(***************************************************************************)
(* The handler of src/app/api/generate/route.ts: one markup fetch, no      *)
(* retry loop, no branch for 403.  The validation before the fetch and     *)
(* everything from the read of the markup on is the same code.             *)
(***************************************************************************)

\* route.ts line 29: the one fetch starts
RouteStartFetch ==
    /\ pc = "loop"
    /\ fetchCount' = fetchCount + 1
    /\ steps' = Append(steps, Step("fetch", FALSE))
    /\ pc' = "fetching"
    /\ UNCHANGED <<body, includeAuthor, includeDate, attempt, htmlResponse, lastError,
                   outcomes, sleeps, sleepsDone, markup, title, imageUrl,
                   imageFetchCount, imageOutcome, responses>>
    /\ UNCHANGED apart

\* route.ts lines 29-42: the fetch resolves with a response of status s
RouteFetchResponds(s) ==
    /\ pc = "fetching"
    /\ htmlResponse' = s
    /\ outcomes' = Append(outcomes, Responded(s))
    /\ pc' = "afterLoop"
    /\ UNCHANGED <<body, includeAuthor, includeDate, attempt, lastError, fetchCount,
                   sleeps, sleepsDone, markup, title, imageUrl, imageFetchCount,
                   imageOutcome, steps, responses>>
    /\ UNCHANGED apart

\* route.ts lines 29-42 reject: the catch of route.ts lines 454-460
RouteFetchThrows(r) ==
    /\ pc = "fetching"
    /\ outcomes' = Append(outcomes, Threw(r))
    /\ Return(ErrorResponse(500, Unexpected))
    /\ steps' = FailLast(steps)
    /\ UNCHANGED <<body, includeAuthor, includeDate, attempt, htmlResponse, lastError,
                   fetchCount, sleeps, sleepsDone, markup, title, imageUrl,
                   imageFetchCount, imageOutcome>>
    /\ UNCHANGED apart

\* route.ts lines 44-50: every response that is not ok, 403 included, gets the
\* generic message and its own status
RouteVerdict(resp) ==
    IF ~IsOk(resp) THEN <<ErrorResponse(resp, FailedToFetch(ToString(resp)))>>
    ELSE <<>>

RouteCheckResponse ==
    /\ pc = "afterLoop"
    /\ IF RouteVerdict(htmlResponse) # <<>>
          THEN /\ Return(RouteVerdict(htmlResponse)[1])
               /\ steps' = FailLast(steps)
          ELSE /\ pc' = "readBody"
               /\ UNCHANGED <<steps, responses>>
    /\ UNCHANGED <<body, includeAuthor, includeDate, attempt, htmlResponse, lastError,
                   outcomes, fetchCount, sleeps, sleepsDone, markup, title, imageUrl,
                   imageFetchCount, imageOutcome>>
    /\ UNCHANGED apart

RouteNext ==
    \/ ParseBody
    \/ RouteStartFetch
    \/ \E s \in Statuses : RouteFetchResponds(s)
    \/ \E r \in Reasons : RouteFetchThrows(r)
    \/ RouteCheckResponse
    \/ BodyReadThrows
    \/ \E m \in Markups : Resolve(m)
    \/ \E o \in ImageOutcomes : ImageSettles(o)
    \/ ImageBodyArrives
    \/ ImageBodyThrows
    \/ RenderSucceeds
    \/ RenderThrows

SpecRoute == Init /\ [][RouteNext]_vars

(***************************************************************************)
(* Strings, as the handler uses them                                       *)
(***************************************************************************)

\* s[i - 1] in JavaScript: the i-th character, counted from 1
Char(s, i) == SubSeq(s, i, i)

RECURSIVE Rep(_, _)
\* String.prototype.repeat
Rep(s, n) ==
    IF n <= 0 THEN ""
    ELSE IF n = 1 THEN s
    ELSE Rep(s, n \div 2) \o Rep(s, n - n \div 2)

\* s.substring(0, n)
Substring0(s, n) == SubSeq(s, 1, IF n < Len(s) THEN n ELSE Len(s))

\* s.slice(n)
SliceFrom(s, n) == SubSeq(s, n + 1, Len(s))

\* s.startsWith(t)
StartsWith(s, t) == Len(t) <= Len(s) /\ SubSeq(s, 1, Len(t)) = t

\* s.indexOf(t), counted from 0, -1 when t does not occur
IndexOf(s, t) ==
    LET at == {i \in 0..(Len(s) - Len(t)) : SubSeq(s, i + 1, i + Len(t)) = t}
    IN  IF at = {} THEN -1 ELSE CHOOSE i \in at : \A j \in at : i <= j

\* s.lastIndexOf(t)
LastIndexOf(s, t) ==
    LET at == {i \in 0..(Len(s) - Len(t)) : SubSeq(s, i + 1, i + Len(t)) = t}
    IN  IF at = {} THEN -1 ELSE CHOOSE i \in at : \A j \in at : i >= j

RECURSIVE SplitOn(_, _)
\* s.split(c) for a one-character separator c
SplitOn(s, c) ==
    LET i == IndexOf(s, c)
    IN  IF i = -1 THEN <<s>>
        ELSE <<Substring0(s, i)>> \o SplitOn(SliceFrom(s, i + 1), c)

RECURSIVE Join(_, _)
\* parts.join(sep)
Join(parts, sep) ==
    IF Len(parts) = 0 THEN ""
    ELSE IF Len(parts) = 1 THEN parts[1]
    ELSE parts[1] \o sep \o Join(Tail(parts), sep)

RECURSIVE TrimStart(_)
TrimStart(s) == IF Len(s) > 0 /\ Char(s, 1) = " " THEN TrimStart(SliceFrom(s, 1)) ELSE s

RECURSIVE TrimEnd(_)
TrimEnd(s) ==
    IF Len(s) > 0 /\ Char(s, Len(s)) = " " THEN TrimEnd(Substring0(s, Len(s) - 1)) ELSE s

\* s.trim(), the white space of the model being the space
Trim(s) == TrimEnd(TrimStart(s))

LowerCase == "abcdefghijklmnopqrstuvwxyz"
UpperCase == "ABCDEFGHIJKLMNOPQRSTUVWXYZ"
Digits == "0123456789"

UpperChar(c) ==
    LET i == IndexOf(LowerCase, c) IN IF i = -1 THEN c ELSE Char(UpperCase, i + 1)

LowerChar(c) ==
    LET i == IndexOf(UpperCase, c) IN IF i = -1 THEN c ELSE Char(LowerCase, i + 1)

RECURSIVE ToUpperCase(_)
\* s.toUpperCase()
ToUpperCase(s) ==
    IF s = "" THEN ""
    ELSE IF Len(s) = 1 THEN UpperChar(s)
    ELSE ToUpperCase(Substring0(s, Len(s) \div 2)) \o ToUpperCase(SliceFrom(s, Len(s) \div 2))

RECURSIVE ToLowerCase(_)
ToLowerCase(s) ==
    IF s = "" THEN ""
    ELSE IF Len(s) = 1 THEN LowerChar(s)
    ELSE ToLowerCase(Substring0(s, Len(s) \div 2)) \o ToLowerCase(SliceFrom(s, Len(s) \div 2))

\* the class \w of a regular expression
IsWordChar(c) ==
    c # "" /\ (IndexOf(LowerCase, c) # -1 \/ IndexOf(UpperCase, c) # -1
                 \/ IndexOf(Digits, c) # -1 \/ c = "_")

RECURSIVE ReplaceAll(_, _, _)
\* s.replace(/c/g, d) for a one-character c
ReplaceAll(s, c, d) ==
    IF s = "" THEN ""
    ELSE IF Len(s) = 1 THEN (IF s = c THEN d ELSE s)
    ELSE ReplaceAll(Substring0(s, Len(s) \div 2), c, d)
         \o ReplaceAll(SliceFrom(s, Len(s) \div 2), c, d)

RECURSIVE CollapseRange(_, _, _)
\* the characters i..j of s without the spaces that follow a space
CollapseRange(s, i, j) ==
    IF i > j THEN ""
    ELSE IF i = j
        THEN (IF Char(s, i) = " " /\ i > 1 /\ Char(s, i - 1) = " " THEN "" ELSE Char(s, i))
    ELSE CollapseRange(s, i, (i + j) \div 2) \o CollapseRange(s, (i + j) \div 2 + 1, j)

\* s.replace(/\s+/g, ' ')
CollapseSpaces(s) == CollapseRange(s, 1, Len(s))

(***************************************************************************)
(* The text of the card, lines 280-337                                     *)
(***************************************************************************)

\* /^by\s+/i removed
StripBy(s) ==
    IF Len(s) >= 3 /\ ToLowerCase(Substring0(s, 2)) = "by" /\ Char(s, 3) = " "
    THEN TrimStart(SliceFrom(s, 2)) ELSE s

\* /^author:\s+/i removed
StripAuthorPrefix(s) ==
    IF Len(s) >= 8 /\ ToLowerCase(Substring0(s, 7)) = "author:" /\ Char(s, 8) = " "
    THEN TrimStart(SliceFrom(s, 7)) ELSE s

\* lines 285-293; of the separators | and the bullet and dashes, the model has |
cleanAuthorName(name) ==
    IF name = "" THEN ""
    ELSE Trim(SplitOn(CollapseSpaces(StripAuthorPrefix(StripBy(name))), "|")[1])

CleanTitle_From150(t) == IF Len(t) >= 150 THEN Substring0(t, 150) \o "..." ELSE t

\* line 296
CleanTitle(t) == IF Len(t) > 150 THEN Substring0(t, 150) \o "..." ELSE t

maxAuthorCharsPerLine == 60

TitleTier_From80(t) ==
    IF Len(t) >= 80 THEN [titleFontSize |-> 36, lineHeight |-> 44, maxCharsPerLine |-> 35]
    ELSE IF Len(t) > 50
        THEN [titleFontSize |-> 42, lineHeight |-> 50, maxCharsPerLine |-> 30]
    ELSE [titleFontSize |-> 48, lineHeight |-> 58, maxCharsPerLine |-> 25]

\* lines 314-326: font size, line height and budget by the length of the title
TitleTier(t) ==
    IF Len(t) > 80 THEN [titleFontSize |-> 36, lineHeight |-> 44, maxCharsPerLine |-> 35]
    ELSE IF Len(t) > 50
        THEN [titleFontSize |-> 42, lineHeight |-> 50, maxCharsPerLine |-> 30]
    ELSE [titleFontSize |-> 48, lineHeight |-> 58, maxCharsPerLine |-> 25]

WrapStep_AtMost(lines, word, max) ==
    LET currentLine == lines[Len(lines)]
    IN  IF currentLine # "" /\ Len(currentLine \o " " \o word) <= max
        THEN [lines EXCEPT ![Len(lines)] = currentLine \o " " \o word]
        ELSE Append(lines, word)

WrapStep_NoSpace(lines, word, max) ==
    LET currentLine == lines[Len(lines)]
    IN  IF currentLine # "" /\ Len(currentLine \o " " \o word) < max
        THEN [lines EXCEPT ![Len(lines)] = currentLine \o word]
        ELSE Append(lines, word)

WrapStep_FillEmpty(lines, word, max) ==
    LET currentLine == lines[Len(lines)]
    IN  IF currentLine = "" THEN [lines EXCEPT ![Len(lines)] = word]
        ELSE IF Len(currentLine \o " " \o word) < max
        THEN [lines EXCEPT ![Len(lines)] = currentLine \o " " \o word]
        ELSE Append(lines, word)

WrapStep_AppendToEmpty(lines, word, max) ==
    LET currentLine == lines[Len(lines)]
    IN  IF Len(currentLine \o " " \o word) < max
        THEN [lines EXCEPT ![Len(lines)] = currentLine \o " " \o word]
        ELSE Append(lines, word)

\* lines 304-310 and 330-336: the reducer of the wrap, for one word
WrapStep(lines, word, max) ==
    LET currentLine == lines[Len(lines)]
    IN  IF currentLine # "" /\ Len(currentLine \o " " \o word) < max
        THEN [lines EXCEPT ![Len(lines)] = currentLine \o " " \o word]
        ELSE Append(lines, word)

(***************************************************************************)
(* The layout, lines 339-365, in tenths of a pixel where a height is       *)
(* fractional                                                              *)
(***************************************************************************)

width == 800
totalHeight == 1000
topPadding == 20
separatorSpacing == 12
separatorHeight == 2
metadataSpacing == 15
metadataLineHeight == 18
bottomPadding == 20

\* titleFontSize * 0.85, in tenths
Ascent10(tier) == (tier.titleFontSize * 85) \div 10

\* Math.round of a number given in tenths
Round10(x) == (x + 5) \div 10

\* line 342, in tenths
titleBlockHeight10(titleLinesCount, tier) ==
    (titleLinesCount - 1) * tier.lineHeight * 10 + Ascent10(tier)

metadataBlockHeight_NoReset(authorLinesCount, incA, incD) ==
    (IF incA THEN authorLinesCount * metadataLineHeight ELSE 0) + metadataLineHeight

\* lines 350-360
metadataBlockHeight(authorLinesCount, incA, incD) ==
    IF ~incA /\ ~incD THEN 0
    ELSE (IF incA THEN authorLinesCount * metadataLineHeight ELSE 0)
         + (IF incD THEN metadataLineHeight ELSE 0)

textHeight_FixedSpacing(titleLinesCount, authorLinesCount, tier, incA, incD) ==
    Round10(topPadding * 10 + titleBlockHeight10(titleLinesCount, tier)
            + separatorSpacing * 10 + separatorHeight * 10
            + (metadataSpacing + metadataLineHeight
               + metadataBlockHeight(authorLinesCount, incA, incD)) * 10
            + bottomPadding * 10)

\* line 364
textHeight(titleLinesCount, authorLinesCount, tier, incA, incD) ==
    Round10(topPadding * 10 + titleBlockHeight10(titleLinesCount, tier)
            + separatorSpacing * 10 + separatorHeight * 10
            + (IF metadataBlockHeight(authorLinesCount, incA, incD) > 0
                 THEN (metadataSpacing + metadataBlockHeight(authorLinesCount, incA, incD)) * 10
                 ELSE 0)
            + bottomPadding * 10)

(***************************************************************************)
(* renderTextBox, src/app/api/generate/textRenderer.ts lines 26-94: what   *)
(* is drawn and where (y in tenths of a pixel); author and date are <<>>   *)
(* when the caller passes undefined                                        *)
(***************************************************************************)

MetaStartY_NoAdvance(separatorY) == separatorY

\* textRenderer.ts line 48: currentY += 2 + options.metadataSpacing, in tenths
MetaStartY(separatorY) == separatorY + (2 + metadataSpacing) * 10

renderTextBox(height, backgroundColor, titleLines, tier, author, date, source) ==
    LET startY == topPadding * 10 + Ascent10(tier)
        separatorY == startY + (Len(titleLines) - 1) * tier.lineHeight * 10
                      + separatorSpacing * 10
        metaY == MetaStartY(separatorY)
        hasAuthor == Len(author) > 0 /\ Len(author[1]) > 0
        authorLines == IF hasAuthor THEN author[1] ELSE <<>>
        dateY == metaY + Len(authorLines) * metadataLineHeight * 10
    IN  [height |-> height,
         backgroundColor |-> backgroundColor,
         title |-> [i \in 1..Len(titleLines) |->
                      [text |-> titleLines[i],
                       y |-> startY + (i - 1) * tier.lineHeight * 10]],
         separatorY |-> separatorY,
         author |-> [i \in 1..Len(authorLines) |->
                      [text |-> authorLines[i],
                       y |-> metaY + (i - 1) * metadataLineHeight * 10]],
         dateSource |-> IF Len(date) > 0 /\ date[1] # "" /\ source # ""
                          THEN <<[text |-> source \o " * " \o date[1], y |-> dateY]>>
                          ELSE <<>>]

(***************************************************************************)
(* SpecCard: lines 280-461 on one resolved article, a word of the wrap at  *)
(* a time                                                                  *)
(***************************************************************************)

\* how often a unit of text is repeated to make a title or an author
MaxRep == 8

TitleUnits == {"a ", " ", "story ", "breaking news today ", Rep("x", 12) \o " ",
               Rep("y", 24) \o " ", Rep("z", 36) \o " "}

TitleTails == {"", "end", Rep("w", 30)}

\* resolved titles: never empty (line 122); some of 150, 151 and more characters
Titles ==
    ({Rep(u, k) \o t : u \in TitleUnits, k \in 0..MaxRep, t \in TitleTails} \ {""})
    \cup {Rep("abcde ", 25), Rep("abcde ", 25) \o "f", Rep("q", 151), Rep(" ", 40)}

\* resolved authors: never empty (line 230)
Authors == {"Unknown Author", "By Jane Doe", "Author:  John   Smith | Daily News", "|",
            Rep("Jane Doe, ", MaxRep) \o "Al"}

\* width and height sharp reports for the fetched image; 0 for undefined
Orientations == {<<1200, 600>>, <<600, 1200>>, <<800, 800>>, <<0, 0>>}

\* the handler of one request, before it has run
HandlerIdle ==
    /\ pc = "start"
    /\ body = "url_valid"
    /\ includeAuthor = TRUE
    /\ includeDate = TRUE
    /\ attempt = 0
    /\ htmlResponse = 0
    /\ lastError = ""
    /\ outcomes = <<>>
    /\ fetchCount = 0
    /\ sleeps = <<>>
    /\ sleepsDone = 0
    /\ markup = NoMarkup
    /\ title = ""
    /\ imageUrl = ""
    /\ imageFetchCount = 0
    /\ imageOutcome = 0
    /\ steps = <<>>
    /\ responses = <<>>

CardInit ==
    /\ HandlerIdle
    /\ res = <<>>
    /\ reqs = <<>>
    /\ \E t \in Titles, a \in Authors, ia \in BOOLEAN, id \in BOOLEAN :
          card = [pc |-> "clean", title |-> t, author |-> a,
                  date |-> "January 5, 2024", source |-> "Daily News",
                  incA |-> ia, incD |-> id,
                  cleanTitle |-> "", cleanAuthor |-> "", cleanDate |-> "",
                  cleanSource |-> "", words |-> <<>>, budget |-> 0,
                  before |-> <<>>, word |-> "",
                  authorLines |-> <<>>, titleLines |-> <<>>, tier |-> TitleTier(""),
                  textHeight |-> 0, imageHeight |-> 0, isHorizontal |-> FALSE,
                  imageSize |-> <<0, 0>>, resizeWidth |-> 0, resizeHeight |-> 0,
                  panel |-> <<>>, top |-> 0]

\* lines 296-303: the texts are cleaned; the wrap of the author starts from ['']
CardClean ==
    /\ card.pc = "clean"
    /\ card' = [card EXCEPT
                  !.pc = "wrapAuthor",
                  !.cleanTitle = CleanTitle(card.title),
                  !.cleanAuthor = ToUpperCase(cleanAuthorName(card.author)),
                  !.cleanDate = ToUpperCase(card.date),
                  !.cleanSource = ToUpperCase(card.source),
                  !.words = SplitOn(ToUpperCase(cleanAuthorName(card.author)), " "),
                  !.budget = maxAuthorCharsPerLine,
                  !.authorLines = <<"">>]
    /\ UNCHANGED <<handler, res, reqs>>

\* lines 303-311: the reducer takes the next word of the author
CardAuthorWord ==
    /\ card.pc = "wrapAuthor"
    /\ card.words # <<>>
    /\ card' = [card EXCEPT
                  !.words = Tail(card.words),
                  !.before = card.authorLines,
                  !.word = Head(card.words),
                  !.authorLines = WrapStep(card.authorLines, Head(card.words), card.budget)]
    /\ UNCHANGED <<handler, res, reqs>>

\* lines 313-329: the tier is chosen; the wrap of the title starts from ['']
CardTier ==
    /\ card.pc = "wrapAuthor"
    /\ card.words = <<>>
    /\ card' = [card EXCEPT
                  !.pc = "wrapTitle",
                  !.tier = TitleTier(card.cleanTitle),
                  !.budget = TitleTier(card.cleanTitle).maxCharsPerLine,
                  !.words = SplitOn(card.cleanTitle, " "),
                  !.before = <<>>,
                  !.word = "",
                  !.titleLines = <<"">>]
    /\ UNCHANGED <<handler, res, reqs>>

\* lines 329-337: the reducer takes the next word of the title
CardTitleWord ==
    /\ card.pc = "wrapTitle"
    /\ card.words # <<>>
    /\ card' = [card EXCEPT
                  !.words = Tail(card.words),
                  !.before = card.titleLines,
                  !.word = Head(card.words),
                  !.titleLines = WrapStep(card.titleLines, Head(card.words), card.budget)]
    /\ UNCHANGED <<handler, res, reqs>>

\* lines 339-368: the heights are computed; sharp is asked for the image's size
CardLayout ==
    /\ card.pc = "wrapTitle"
    /\ card.words = <<>>
    /\ LET h == textHeight(Len(card.titleLines), Len(card.authorLines), card.tier,
                           card.incA, card.incD)
       IN  card' = [card EXCEPT !.pc = "metadata", !.textHeight = h,
                                !.imageHeight = totalHeight - h]
    /\ UNCHANGED <<handler, res, reqs>>

IsHorizontal_OrSquare(w, h) == w >= h

\* line 369: (imageMetadata.width || 0) > (imageMetadata.height || 0)
IsHorizontal(w, h) == w > h

ResizeThrows_Never(h) == FALSE

\* lines 377 and 403: sharp's resize rejects a height that is no positive integer
ResizeThrows(h) == h <= 0

ResizeHeight_AlwaysFull(isHorizontal, imageHeight) == totalHeight

\* lines 379 and 404: the height the image is resized to
ResizeHeight(isHorizontal, imageHeight) ==
    IF isHorizontal THEN imageHeight ELSE totalHeight

\* lines 389 and 414
BackgroundColor(isHorizontal) ==
    IF isHorizontal THEN "#FFFFFF" ELSE "rgba(255, 255, 255, 0.85)"

\* lines 368-426: sharp reports the image's size o; the image is resized (sharp
\* throws unless the height is a positive integer) and the text panel rendered
CardRender(o) ==
    /\ card.pc = "metadata"
    /\ LET isH == IsHorizontal(o[1], o[2])
           rh == ResizeHeight(isH, card.imageHeight)
       IN  IF ResizeThrows(rh)
           THEN card' = [card EXCEPT !.pc = "failed", !.imageSize = o,
                                     !.isHorizontal = isH, !.resizeHeight = rh]
           ELSE card' = [card EXCEPT
                           !.pc = "composite",
                           !.imageSize = o,
                           !.isHorizontal = isH,
                           !.resizeWidth = width,
                           !.resizeHeight = rh,
                           !.panel = <<renderTextBox(card.textHeight, BackgroundColor(isH),
                                         card.titleLines, card.tier,
                                         IF card.incA THEN <<card.authorLines>> ELSE <<>>,
                                         IF card.incD THEN <<card.cleanDate>> ELSE <<>>,
                                         card.cleanSource)>>]
    /\ UNCHANGED <<handler, res, reqs>>

\* lines 436-461: the layers are composited (sharp throws when the text panel is
\* taller than the canvas) and the card is encoded
CardComposite ==
    /\ card.pc = "composite"
    /\ IF card.textHeight > totalHeight
         THEN card' = [card EXCEPT !.pc = "failed"]
         ELSE card' = [card EXCEPT !.pc = "done", !.top = totalHeight - card.textHeight]
    /\ UNCHANGED <<handler, res, reqs>>

CardNext ==
    \/ CardClean
    \/ CardAuthorWord
    \/ CardTier
    \/ CardTitleWord
    \/ CardLayout
    \/ \E o \in Orientations : CardRender(o)
    \/ CardComposite

SpecCard == CardInit /\ [][CardNext]_vars

(***************************************************************************)
(* The fields author, source and date, lines 129-255                       *)
(***************************************************************************)

\* array.filter(Boolean) on strings
FilterNonEmpty(parts) == SelectSeq(parts, LAMBDA x : x # "")

\* the value of "author" in a structured-data object: absent, a string, an
\* object with a name ("" for none), or an array whose entries are strings or
\* objects with a name (the same to `a.name || a`) or null
Entry(s) == [null |-> FALSE, name |-> s]
NullEntry == [null |-> TRUE, name |-> ""]
NoAuthor == [kind |-> "none", entries |-> <<>>]
AStr(s) == [kind |-> "string", entries |-> <<Entry(s)>>]
AObj(s) == [kind |-> "object", entries |-> <<Entry(s)>>]
AArr(es) == [kind |-> "array", entries |-> es]

\* the value of "publisher": absent, a string, or an object with a name
NoPublisher == [kind |-> "none", name |-> ""]
PStr(s) == [kind |-> "string", name |-> s]
PObj(s) == [kind |-> "object", name |-> s]

\* data.author is truthy
HasAuthor(data) ==
    \/ data.author.kind \in {"object", "array"}
    \/ data.author.kind = "string" /\ data.author.entries[1].name # ""

\* line 147: a.name of a null entry throws a TypeError
AuthorThrows(author, data) ==
    /\ author = ""
    /\ data.author.kind = "array"
    /\ \E i \in 1..Len(data.author.entries) : data.author.entries[i].null

\* lines 146-152: the value the three branches give
AuthorOf(author, data) ==
    IF data.author.kind = "array"
    THEN Join(FilterNonEmpty([i \in 1..Len(data.author.entries) |->
                                 data.author.entries[i].name]), ", ")
    ELSE IF data.author.kind = "object"
         THEN (IF data.author.entries[1].name # ""
               THEN data.author.entries[1].name ELSE author)
    ELSE data.author.entries[1].name

ExtractAuthor_Overwrite(author, data) ==
    IF HasAuthor(data) THEN AuthorOf(author, data) ELSE author

\* lines 145-153
ExtractAuthor(author, data) ==
    IF author = "" /\ HasAuthor(data) THEN AuthorOf(author, data) ELSE author

\* lines 156-162
ExtractSource(source, data) ==
    IF source = "" /\ data.publisher.kind # "none" /\ data.publisher.name # ""
    THEN data.publisher.name
    ELSE source

\* lines 165-167
ExtractDate(date, data) ==
    IF date = "" /\ data.datePublished # "" THEN data.datePublished ELSE date

RECURSIVE TitleCaseRange(_, _, _)
TitleCaseRange(s, i, j) ==
    IF i > j THEN ""
    ELSE IF i = j
        THEN (IF IsWordChar(Char(s, i)) /\ (i = 1 \/ ~IsWordChar(Char(s, i - 1)))
              THEN UpperChar(Char(s, i)) ELSE Char(s, i))
    ELSE TitleCaseRange(s, i, (i + j) \div 2) \o TitleCaseRange(s, (i + j) \div 2 + 1, j)

\* s.replace(/\b\w/g, c => c.toUpperCase())
TitleCase(s) == TitleCaseRange(s, 1, Len(s))

\* lines 192-193: the name matched by /profile\/(.+)$/ in one trimmed entry of
\* the list, "" without a match
ProfileName(url) ==
    LET i == IndexOf(url, "profile/")
    IN  IF i # -1 /\ Len(url) > i + 8
        THEN TitleCase(ReplaceAll(SliceFrom(url, i + 8), "-", " "))
        ELSE ""

\* lines 187-200: the author taken from the content of article:author
ArticleAuthor(articleAuthor) ==
    IF IndexOf(articleAuthor, "profile/") # -1
    THEN LET urls == SplitOn(articleAuthor, ",")
         IN  Join(FilterNonEmpty([i \in 1..Len(urls) |-> ProfileName(Trim(urls[i]))]), ", ")
    ELSE articleAuthor

\* lines 179-182
MetaAuthor(tags) == Or(tags.name, Or(Trim(tags.rel), Trim(tags.class)))

\* lines 178-203
FallbackAuthor(author, tags) ==
    IF author # "" THEN author
    ELSE IF MetaAuthor(tags) = "" THEN ArticleAuthor(tags.article)
    ELSE MetaAuthor(tags)

\* lines 205-210
FallbackDate(date, tags) ==
    IF date # "" THEN date ELSE Or(tags.published, Or(tags.publish, tags.time))

\* lines 212-217
FallbackSource(source, tags) ==
    IF source # "" THEN source ELSE Or(tags.site, tags.app)

\* s.replace(t, d): the first occurrence
ReplaceFirst(s, t, d) ==
    LET i == IndexOf(s, t)
    IN  IF i = -1 THEN s ELSE Substring0(s, i) \o d \o SliceFrom(s, i + Len(t))

\* lines 219-226: new URL(url) succeeded at line 19, so nothing is caught here
HostSource(source, hostname) ==
    IF source # "" THEN source ELSE ReplaceFirst(hostname, "www.", "")

\* lines 229-231
DefaultAuthor(author) == IF author # "" THEN author ELSE "Unknown Author"

(***************************************************************************)
(* The date, lines 233-255; the zone of the server is taken to be UTC      *)
(***************************************************************************)

IsDigit(c) == c # "" /\ IndexOf(Digits, c) # -1

RECURSIVE Num(_)
\* the number a string of digits denotes
Num(s) ==
    IF s = "" THEN 0
    ELSE Num(Substring0(s, Len(s) - 1)) * 10 + IndexOf(Digits, Char(s, Len(s)))

IsLeap(y) == (y % 4 = 0 /\ y % 100 # 0) \/ y % 400 = 0

DaysIn(y, m) ==
    IF m = 2 THEN (IF IsLeap(y) THEN 29 ELSE 28)
    ELSE IF m \in {4, 6, 9, 11} THEN 30 ELSE 31

\* new Date(s) for the date-only form YYYY-MM-DD: <<the date>>, or <<>> for an
\* Invalid Date
ParseDate(s) ==
    IF /\ Len(s) = 10
       /\ Char(s, 5) = "-"
       /\ Char(s, 8) = "-"
       /\ \A i \in {1, 2, 3, 4, 6, 7, 9, 10} : IsDigit(Char(s, i))
       /\ Num(SubSeq(s, 6, 7)) \in 1..12
       /\ Num(SubSeq(s, 9, 10)) \in 1..DaysIn(Num(SubSeq(s, 1, 4)), Num(SubSeq(s, 6, 7)))
    THEN <<[year |-> Num(SubSeq(s, 1, 4)), month |-> Num(SubSeq(s, 6, 7)),
            day |-> Num(SubSeq(s, 9, 10))]>>
    ELSE <<>>

MonthNames == <<"January", "February", "March", "April", "May", "June", "July",
                "August", "September", "October", "November", "December">>

\* toLocaleDateString('en-US', {month: 'long', day: 'numeric', year: 'numeric'})
LongForm(d) ==
    MonthNames[d.month] \o " " \o ToString(d.day) \o ", " \o ToString(d.year)

\* toLocaleDateString('en-US', {month: 'short', day: '2-digit', year: 'numeric'})
ShortForm(d) ==
    Substring0(MonthNames[d.month], 3) \o " "
    \o (IF d.day < 10 THEN "0" ELSE "") \o ToString(d.day) \o ", " \o ToString(d.year)

\* lines 242-246
CurrentDateForm(today) == ReplaceAll(ReplaceAll(ShortForm(today), ",", ""), " ", "-")

\* lines 234-255: toLocaleDateString gives "Invalid Date" for an Invalid Date and
\* throws nothing, so the catch of line 248 is never entered
FormatDate(date, today) ==
    IF date # ""
    THEN (IF ParseDate(date) # <<>> THEN LongForm(ParseDate(date)[1]) ELSE "Invalid Date")
    ELSE CurrentDateForm(today)

(***************************************************************************)
(* SpecResolve: lines 129-255 on one document, read piece by piece         *)
(***************************************************************************)

\* structured-data blocks in a document, objects in a block
MaxBlocks == 2
MaxObjects == 2

AuthorValues ==
    {NoAuthor, AStr("Jane Doe"), AObj("Ann Lee"), AObj(""),
     AArr(<<Entry("Ann Lee"), Entry(""), Entry("Bo Chen")>>),
     AArr(<<Entry("Zed"), NullEntry>>), AArr(<<>>)}

PublisherValues == {NoPublisher, PStr("The Post"), PObj("Daily News"), PObj("")}

DateValues == {"", "2024-01-05", "2023-12-31", "not a date"}

\* the objects a structured-data block may hold
Objects ==
    [author : AuthorValues, publisher : PublisherValues, datePublished : DateValues]

NoAuthorTags == [name |-> "", rel |-> "", class |-> "", article |-> ""]

\* meta[name=author], [rel=author], .author and meta[property=article:author]
AuthorTags ==
    {NoAuthorTags,
     [NoAuthorTags EXCEPT !.name = "Meta Person"],
     [NoAuthorTags EXCEPT !.rel = "  Rel Person ", !.article = "Plain Name"],
     [NoAuthorTags EXCEPT !.class = "Staff Writer"],
     [NoAuthorTags EXCEPT !.article = "Plain Name"],
     [NoAuthorTags EXCEPT !.article =
        "https://site.com/profile/john-smith, https://site.com/profile/jane-doe"],
     [NoAuthorTags EXCEPT !.article = "https://www.theguardian.com/profile/hugo-lowell"],
     [NoAuthorTags EXCEPT !.article = "https://site.com/profile/staff/amy-li"],
     [NoAuthorTags EXCEPT !.article = "https://site.com/profile/amy-li/"],
     [NoAuthorTags EXCEPT !.article = "https://site.com/profile/"],
     [NoAuthorTags EXCEPT !.article = "https://www.facebook.com/jane-doe"]}

\* article:published_time, publish_date and time[datetime]
DateTags ==
    {[published |-> "", publish |-> "", time |-> ""],
     [published |-> "2024-01-05", publish |-> "2023-12-31", time |-> ""],
     [published |-> "", publish |-> "", time |-> "yesterday"],
     [published |-> "", publish |-> "2023-12-31", time |-> "2024-01-05"]}

\* og:site_name and application-name
SourceTags ==
    {[site |-> "", app |-> ""], [site |-> "Site Name", app |-> "App"],
     [site |-> "", app |-> "App"]}

\* hostnames of the request's url
Hostnames == {"www.example.com", "news.site.org"}

\* the days the request may be served on
Todays == {[year |-> 2026, month |-> 11, day |-> 1], [year |-> 2024, month |-> 1, day |-> 5]}

Fields == {"author", "source", "date"}

\* the fields that hold a value and for which v offers another one
Offers(r, v) == {f \in Fields : r[f] # "" /\ v[f] # "" /\ v[f] # r[f]}

\* author, source and date all hold a value
Complete(r) == r.author # "" /\ r.source # "" /\ r.date # ""

\* the fields for which v has a value
Gives(v) == {f \in Fields : v[f] # ""}

\* line 170: the objects of the block still to examine after one that left the
\* fields a, s and d
ScanBreak(a, s, d, left) == IF a # "" /\ s # "" /\ d # "" THEN 0 ELSE left - 1

ScanAfterThrow_Abort(r) == [r EXCEPT !.pc = "failed", !.caught = @ + 1, !.gave = {}]

\* lines 172-174: the catch logs the error; each() goes on with the next block
ScanAfterThrow(r) == [r EXCEPT !.left = 0, !.caught = @ + 1, !.gave = {}]

ResolveInit ==
    /\ HandlerIdle
    /\ card = <<>>
    /\ reqs = <<>>
    /\ res = [pc |-> "scan", author |-> "", source |-> "", date |-> "",
              blocks |-> 0, left |-> 0, caught |-> 0, late |-> 0, lateBlocks |-> 0,
              gave |-> {}, offered |-> {},
              article |-> "", hostname |-> "", formattedDate |-> "Unknown Date",
              today |-> <<>>]


\* lines 135-137: JSON.parse throws on the next block; the catch of line 172
\* logs it and the scan goes on with the block after it
ResBlockUnparsable ==
    /\ res.pc = "scan"
    /\ res.left = 0
    /\ res.blocks < MaxBlocks
    /\ res' = [ScanAfterThrow(res) EXCEPT
                 !.blocks = @ + 1,
                 !.lateBlocks = IF Complete(res) THEN @ + 1 ELSE @]
    /\ UNCHANGED <<handler, card, reqs>>

\* lines 135-140: the next block parses to n objects
ResBlockParsed(n) ==
    /\ res.pc = "scan"
    /\ res.left = 0
    /\ res.blocks < MaxBlocks
    /\ res' = [res EXCEPT !.blocks = @ + 1, !.left = n, !.gave = {},
                            !.lateBlocks = IF Complete(res) THEN @ + 1 ELSE @]
    /\ UNCHANGED <<handler, card, reqs>>

\* lines 143-170: one object of the block is examined; a throw leaves the
\* block, and so does the break of line 170
ResObject(data) ==
    /\ res.pc = "scan"
    /\ res.left > 0
    /\ LET complete == Complete(res)
           offer == [author |-> IF AuthorThrows("", data) THEN ""
                                ELSE ExtractAuthor("", data),
                     source |-> ExtractSource("", data),
                     date |-> ExtractDate("", data)]
           a == ExtractAuthor(res.author, data)
           s == ExtractSource(res.source, data)
           d == ExtractDate(res.date, data)
       IN  IF AuthorThrows(res.author, data)
           THEN res' = ScanAfterThrow(res)
           ELSE res' = [res EXCEPT
                          !.author = a, !.source = s, !.date = d,
                          !.left = ScanBreak(a, s, d, res.left),
                          !.gave = Gives(offer),
                          !.late = IF complete THEN @ + 1 ELSE @,
                          !.offered = @ \cup Offers(res, offer)]
    /\ UNCHANGED <<handler, card, reqs>>

\* the document has no further block
ResScanEnd ==
    /\ res.pc = "scan"
    /\ res.left = 0
    /\ res' = [res EXCEPT !.pc = "metaAuthor", !.gave = {}]
    /\ UNCHANGED <<handler, card, reqs>>

\* lines 178-203
ResMetaAuthor(tags) ==
    /\ res.pc = "metaAuthor"
    /\ res' = [res EXCEPT
                 !.pc = "metaDate",
                 !.author = FallbackAuthor(res.author, tags),
                 !.article = IF res.author = "" /\ MetaAuthor(tags) = ""
                             THEN tags.article ELSE "",
                 !.gave = Gives([author |-> FallbackAuthor("", tags),
                                 source |-> "", date |-> ""]),
                 !.offered = @ \cup Offers(res, [author |-> FallbackAuthor("", tags),
                                                 source |-> "", date |-> ""])]
    /\ UNCHANGED <<handler, card, reqs>>

\* lines 205-210
ResMetaDate(tags) ==
    /\ res.pc = "metaDate"
    /\ res' = [res EXCEPT
                 !.pc = "metaSource",
                 !.date = FallbackDate(res.date, tags),
                 !.gave = Gives([author |-> "", source |-> "",
                                 date |-> FallbackDate("", tags)]),
                 !.offered = @ \cup Offers(res, [author |-> "", source |-> "",
                                                 date |-> FallbackDate("", tags)])]
    /\ UNCHANGED <<handler, card, reqs>>

\* lines 212-217
ResMetaSource(tags) ==
    /\ res.pc = "metaSource"
    /\ res' = [res EXCEPT
                 !.pc = "hostSource",
                 !.source = FallbackSource(res.source, tags),
                 !.gave = Gives([author |-> "", date |-> "",
                                 source |-> FallbackSource("", tags)]),
                 !.offered = @ \cup Offers(res, [author |-> "", date |-> "",
                                                 source |-> FallbackSource("", tags)])]
    /\ UNCHANGED <<handler, card, reqs>>

\* lines 219-226
ResHostSource(hostname) ==
    /\ res.pc = "hostSource"
    /\ res' = [res EXCEPT
                 !.pc = "defaultAuthor",
                 !.hostname = hostname,
                 !.source = HostSource(res.source, hostname),
                 !.gave = Gives([author |-> "", date |-> "",
                                 source |-> HostSource("", hostname)]),
                 !.offered = @ \cup Offers(res, [author |-> "", date |-> "",
                                                 source |-> HostSource("", hostname)])]
    /\ UNCHANGED <<handler, card, reqs>>

\* lines 229-231
ResDefaultAuthor ==
    /\ res.pc = "defaultAuthor"
    /\ res' = [res EXCEPT
                 !.pc = "formatDate",
                 !.author = DefaultAuthor(res.author),
                 !.gave = {"author"},
                 !.offered = @ \cup Offers(res, [author |-> DefaultAuthor(""),
                                                 source |-> "", date |-> ""])]
    /\ UNCHANGED <<handler, card, reqs>>

\* lines 233-255, on the day today
ResFormatDate(today) ==
    /\ res.pc = "formatDate"
    /\ res' = [res EXCEPT
                 !.pc = "resolved",
                 !.today = <<today>>,
                 !.formattedDate = FormatDate(res.date, today)]
    /\ UNCHANGED <<handler, card, reqs>>

ResolveNext ==
    \/ ResBlockUnparsable
    \/ \E n \in 0..MaxObjects : ResBlockParsed(n)
    \/ \E data \in Objects : ResObject(data)
    \/ ResScanEnd
    \/ \E tags \in AuthorTags : ResMetaAuthor(tags)
    \/ \E tags \in DateTags : ResMetaDate(tags)
    \/ \E tags \in SourceTags : ResMetaSource(tags)
    \/ \E hostname \in Hostnames : ResHostSource(hostname)
    \/ ResDefaultAuthor
    \/ \E today \in Todays : ResFormatDate(today)

SpecResolve == ResolveInit /\ [][ResolveNext]_vars

(***************************************************************************)
(* SpecTwo: two requests handled at once on the one event loop; each       *)
(* invocation of POST has its own locals (lines 40-43), the module of      *)
(* textRenderer.ts holds the fonts loaded at import (lines 4-8).  Lines    *)
(* 40-113 of each request, interleaved at the awaits.                      *)
(***************************************************************************)

Requests == {1, 2}

\* statuses the origin answers a markup fetch with
TwoStatuses == {200, 403, 500, 503}

\* let htmlResponse; let lastError; attempt = 0
NewLocals ==
    [pc |-> "loop", attempt |-> 0, htmlResponse |-> 0, lastError |-> "",
     outcomes |-> <<>>, sleeps |-> <<>>, responses |-> <<>>]

TwoInit ==
    /\ HandlerIdle
    /\ res = <<>>
    /\ card = <<>>
    /\ reqs = [fonts |-> "loaded", of |-> [r \in Requests |-> NewLocals]]

Runnable_BlockingSleep(r, rs) ==
    /\ rs[r].pc \notin {"done", "readBody"}
    /\ \A q \in Requests \ {r} : rs[q].pc # "backoff"

\* lines 47, 76, 85: every wait is an await, so a request can take its next
\* step whatever the other one is waiting for
Runnable(r, rs) == rs[r].pc \notin {"done", "readBody"}

\* request r alone gets the locals l
Locals(r, l) == reqs' = [reqs EXCEPT !.of[r] = l]

TwoStartFetch(r) ==
    LET l == reqs.of[r]
    IN  /\ Runnable(r, reqs.of)
        /\ l.pc = "loop"
        /\ LoopContinues(l.attempt)
        /\ Locals(r, [l EXCEPT !.pc = "fetching"])
        /\ UNCHANGED <<handler, res, card>>

TwoLoopExit(r) ==
    LET l == reqs.of[r]
    IN  /\ Runnable(r, reqs.of)
        /\ l.pc = "loop"
        /\ ~LoopContinues(l.attempt)
        /\ Locals(r, [l EXCEPT !.pc = "afterLoop"])
        /\ UNCHANGED <<handler, res, card>>

\* lines 47-79 of request r
TwoFetchResponds(r, s) ==
    LET l == reqs.of[r]
    IN  /\ Runnable(r, reqs.of)
        /\ l.pc = "fetching"
        /\ Locals(r, [l EXCEPT
                        !.htmlResponse = s,
                        !.outcomes = Append(@, Responded(s)),
                        !.sleeps = IF AfterResponse(s, l.attempt) = "retry"
                                   THEN Append(@, backoffMs(l.attempt)) ELSE @,
                        !.pc = IF AfterResponse(s, l.attempt) = "retry"
                               THEN "backoff" ELSE "afterLoop"])
        /\ UNCHANGED <<handler, res, card>>

\* lines 80-87 of request r
TwoFetchThrows(r, e) ==
    LET l == reqs.of[r]
    IN  /\ Runnable(r, reqs.of)
        /\ l.pc = "fetching"
        /\ Locals(r, [l EXCEPT
                        !.lastError = KeepError(@, e),
                        !.outcomes = Append(@, Threw(e)),
                        !.sleeps = IF RetriesError(l.attempt)
                                   THEN Append(@, backoffMs(l.attempt)) ELSE @,
                        !.attempt = IF RetriesError(l.attempt) THEN @ ELSE @ + 1,
                        !.pc = IF RetriesError(l.attempt) THEN "backoff" ELSE "loop"])
        /\ UNCHANGED <<handler, res, card>>

\* the timer of request r fires
TwoBackoffDone(r) ==
    LET l == reqs.of[r]
    IN  /\ Runnable(r, reqs.of)
        /\ l.pc = "backoff"
        /\ Locals(r, [l EXCEPT !.attempt = @ + 1, !.pc = "loop"])
        /\ UNCHANGED <<handler, res, card>>

\* lines 90-113 of request r: it responds, or goes on to read the markup
TwoCheckResponse(r) ==
    LET l == reqs.of[r]
        v == FetchVerdict(l.htmlResponse, l.lastError)
    IN  /\ Runnable(r, reqs.of)
        /\ l.pc = "afterLoop"
        /\ Locals(r, [l EXCEPT !.responses = @ \o v,
                               !.pc = IF v # <<>> THEN "done" ELSE "readBody"])
        /\ UNCHANGED <<handler, res, card>>

TwoStep(r) ==
    \/ TwoStartFetch(r)
    \/ TwoLoopExit(r)
    \/ \E s \in TwoStatuses : TwoFetchResponds(r, s)
    \/ \E e \in Reasons : TwoFetchThrows(r, e)
    \/ TwoBackoffDone(r)
    \/ TwoCheckResponse(r)

TwoNext ==
    \/ \E r \in Requests : TwoStartFetch(r)
    \/ \E r \in Requests : TwoLoopExit(r)
    \/ \E r \in Requests, s \in TwoStatuses : TwoFetchResponds(r, s)
    \/ \E r \in Requests, e \in Reasons : TwoFetchThrows(r, e)
    \/ \E r \in Requests : TwoBackoffDone(r)
    \/ \E r \in Requests : TwoCheckResponse(r)

SpecTwo == TwoInit /\ [][TwoNext]_vars

(***************************************************************************)
(* Properties                                                              *)
(***************************************************************************)

\* an attempt that ended in a 5xx response or in a network-level failure
Transient(o) == o.kind = "throw" \/ (o.kind = "response" /\ o.status >= 500)

\* the reason an attempt failed for: the error's message, or the status
ReasonOf(o) == IF o.kind = "throw" THEN o.reason ELSE ToString(o.status)

Exhausted == pc = "done" /\ Len(outcomes) = 3

Ran(name) == \E i \in 1..Len(steps) : steps[i].name = name

\* C1 as stated: when all 3 attempts end in a transient failure (5xx responses
\* and network-level failures in any mix), the response is the network error:
\* status 500 and the reason of the last failed attempt in the message.
C1_AnyMix ==
    (Exhausted /\ \A i \in 1..3 : Transient(outcomes[i]))
        => responses = <<ErrorResponse(500, FailedToFetch(ReasonOf(outcomes[3])))>>

\* C1 amended: when all 3 attempts end in a network-level failure, so that no
\* response was ever received, the response is the network error: status 500 and
\* the reason of the last failed attempt in the message.
C1_NetworkError ==
    (Exhausted /\ \A i \in 1..3 : outcomes[i].kind = "throw")
        => responses = <<ErrorResponse(500, FailedToFetch(outcomes[3].reason))>>

C1_Witness ==
    /\ Exhausted
    /\ \A i \in 1..3 : outcomes[i].kind = "throw"
    /\ outcomes[3].reason # outcomes[1].reason
    /\ outcomes[3].reason # outcomes[2].reason

C3_AtMostThreeFetches == fetchCount <= 3

C3_Witness ==
    /\ pc = "done"
    /\ fetchCount = 3
    /\ outcomes[1].kind = "throw"
    /\ outcomes[2].kind = "response"
    /\ outcomes[3].kind = "throw"

\* C4: after attempt a (from 0) ends in a 5xx response or a network-level failure
\* with a < 2, a wait of 2^a seconds starts, and the next attempt starts only when
\* that wait is over; there is no wait after the final attempt.
C4_Backoff ==
    /\ \A i \in 1..Len(sleeps) :
          /\ sleeps[i] = Pow2(i - 1) * 1000
          /\ i <= Len(outcomes)
          /\ Transient(outcomes[i])
    /\ \A i \in 1..Len(outcomes) :
          (Transient(outcomes[i]) /\ i - 1 < 2) => Len(sleeps) >= i
    /\ Len(sleeps) <= 2
    /\ fetchCount <= sleepsDone + 1
    /\ pc = "backoff" <=> sleepsDone < Len(sleeps)

C4_Witness ==
    /\ pc = "done"
    /\ sleeps = <<1000, 2000>>
    /\ outcomes[1].kind = "response"
    /\ outcomes[2].kind = "throw"
    /\ Transient(outcomes[3])

\* C5: a markup fetch that ends with a 403 response gives status 403 with the
\* message about the site blocking automated access, not the generic message.
C5_Blocked ==
    (pc = "done" /\ htmlResponse = 403) => responses = <<ErrorResponse(403, Blocked)>>

\* C6: a final markup response that is not 2xx and not 403 gives the FetchFailed
\* error with the origin's own status.
C6_OriginStatus ==
    (pc = "done" /\ htmlResponse # 0 /\ ~IsOk(htmlResponse) /\ htmlResponse # 403)
        => /\ Len(responses) = 1
           /\ responses[1].status = htmlResponse
           /\ responses[1].error = FailedToFetch(ToString(htmlResponse))

C6_Witness ==
    /\ pc = "done"
    /\ htmlResponse = 503
    /\ Len(outcomes) = 3
    /\ responses[1].status = 503

\* C7: a body whose url is missing, is no string or is no valid URL gives status
\* 400, and neither the markup nor the image is fetched.
C7_InvalidInput ==
    (pc = "done" /\ body # "url_valid")
        => /\ Len(responses) = 1
           /\ responses[1].status = 400
           /\ fetchCount = 0
           /\ imageFetchCount = 0

\* C8: when none of og:image, twitter:image and og:image:url has a value, the
\* response is 400 'No article image found...' whatever the other fields are, and
\* the image is never fetched.
C8_NoImage ==
    (Ran("resolve") /\ markup.ogImage = "" /\ markup.twImage = ""
        /\ markup.ogImageUrl = "")
        => /\ pc = "done"
           /\ responses = <<ErrorResponse(400, NoImageFound)>>
           /\ imageFetchCount = 0

C8_Witness ==
    /\ Ran("resolve")
    /\ markup.ogImage = "" /\ markup.twImage = "" /\ markup.ogImageUrl = ""
    /\ title = "TW Title"
    /\ pc = "done"

\* C9: the image is fetched at most once in a request, and an image fetch that
\* fails (a rejection or a response that is not 2xx) ends the request with status
\* 500 and 'Failed to fetch article image'.
C9_ImageFetchOnce ==
    /\ imageFetchCount <= 1
    /\ (imageOutcome = -1 \/ (imageOutcome # 0 /\ ~IsOk(imageOutcome)))
          => /\ pc = "done"
             /\ responses = <<ErrorResponse(500, ImageFetchFailed)>>

C9_Witness ==
    /\ fetchCount = 3
    /\ imageFetchCount = 1
    /\ imageOutcome = 503
    /\ pc = "done"

IsSuccess(r) ==
    IsOk(r.status) /\ r.error = <<>> /\ r.image # "" /\ r.metadata # <<>>

IsError(r) ==
    ~IsOk(r.status) /\ r.error # <<>> /\ r.image = "" /\ r.metadata = <<>>

\* C10: a request that has ended has returned exactly one response, a success
\* (image and metadata, no error) or an error (a status that is not 2xx, no
\* image); a step that failed is the last step that ran.
C10_OneResponse ==
    /\ Len(responses) <= 1
    /\ pc = "done" <=> Len(responses) = 1
    /\ \A i \in 1..Len(responses) :
          /\ IsSuccess(responses[i]) \/ IsError(responses[i])
          /\ IsError(responses[i]) <=> steps[Len(steps)].failed
    /\ \A i \in 1..Len(steps) :
          steps[i].failed => (i = Len(steps) /\ pc = "done")

C10_Witness ==
    /\ pc = "done"
    /\ Len(steps) = 4
    /\ steps[4].name = "imageFetch"
    /\ steps[4].failed
    /\ IsError(responses[1])

(***************************************************************************)
(* Properties of the card, under SpecCard                                  *)
(***************************************************************************)

IsSingleWord(line) == IndexOf(line, " ") = -1

WithinBudget(lines, B) ==
    \A i \in 1..Len(lines) :
        Len(lines[i]) < B \/ (IsSingleWord(lines[i]) /\ Len(lines[i]) >= B)

LaidOut == card.pc \in {"metadata", "composite", "done", "failed"}

\* C13: every line the wrap has produced is strictly shorter than its budget
\* (60 for the author, 25, 30 or 35 for the title), except a line that is one
\* single word of at least the budget's length.
C13_LinesWithinBudget ==
    /\ WithinBudget(card.authorLines, 60)
    /\ card.tier.maxCharsPerLine \in {25, 30, 35}
    /\ WithinBudget(card.titleLines, card.tier.maxCharsPerLine)

C13_Witness ==
    /\ card.pc = "done"
    /\ \E i \in 1..Len(card.titleLines) :
          /\ Len(card.titleLines[i]) = card.tier.maxCharsPerLine - 1
          /\ ~IsSingleWord(card.titleLines[i])
    /\ \E i \in 1..Len(card.authorLines) :
          Len(card.authorLines[i]) > 50 /\ ~IsSingleWord(card.authorLines[i])

\* C14: a title of more than 150 characters is displayed as its first 150
\* characters followed by "..."; a title of 150 characters or fewer is
\* displayed unchanged.
C14_Truncation ==
    card.pc # "clean" =>
        IF Len(card.title) > 150
        THEN /\ Len(card.cleanTitle) = 153
             /\ \A i \in 1..150 : Char(card.cleanTitle, i) = Char(card.title, i)
             /\ \A i \in 151..153 : Char(card.cleanTitle, i) = "."
        ELSE card.cleanTitle = card.title

C14_Witness ==
    /\ card.pc = "done"
    /\ Len(card.title) = 151
    /\ Len(card.cleanTitle) = 153

C17_SumIsTotal ==
    card.pc = "done" => card.textHeight + card.resizeHeight = 1000

\* C17, amended: on every card produced from an image wider than high, the
\* height of the text box and the height the image is resized to add up to
\* 1000.
C17_HorizontalSum ==
    (card.pc = "done" /\ card.isHorizontal) =>
        /\ card.textHeight + card.resizeHeight = 1000
        /\ card.panel[1].height = card.textHeight

C17_Witness ==
    /\ card.pc = "done"
    /\ card.isHorizontal
    /\ card.incA
    /\ card.incD
    /\ card.resizeHeight < 1000
    /\ card.resizeHeight > 0

InWrap == card.pc \in {"wrapAuthor", "wrapTitle"}

\* the lines of the wrap in progress
WrapLines == IF card.pc = "wrapAuthor" THEN card.authorLines ELSE card.titleLines

\* C19, as claimed: the wrap starts from one empty line and a word is appended
\* to the last line whenever last line + " " + word is shorter than the
\* budget, also when the last line is the initial empty line; otherwise the
\* word starts a new line.
C19_AppendsWheneverBelow ==
    InWrap =>
        IF card.before = <<>> THEN WrapLines = <<"">>
        ELSE LET n == Len(card.before)
                 joined == card.before[n] \o " " \o card.word
             IN  IF Len(joined) < card.budget
                 THEN WrapLines = [card.before EXCEPT ![n] = joined]
                 ELSE WrapLines = Append(card.before, card.word)

\* C19, amended: the wrap starts from one empty line and a word is appended to
\* the last line whenever that line is not empty and last line + " " + word is
\* shorter than the budget; otherwise the word starts a new line.
C19_AppendsToNonEmpty ==
    InWrap =>
        IF card.before = <<>> THEN WrapLines = <<"">>
        ELSE LET n == Len(card.before)
                 joined == card.before[n] \o " " \o card.word
             IN  IF card.before[n] # "" /\ Len(joined) < card.budget
                 THEN WrapLines = [card.before EXCEPT ![n] = joined]
                 ELSE WrapLines = Append(card.before, card.word)

C19_Witness ==
    /\ card.pc = "wrapTitle"
    /\ card.before = <<"">>
    /\ card.word = "story"
    /\ card.titleLines = <<"", "story">>

C11_FirstWriterWins ==
    [][\A f \in Fields : res[f] # "" => res'[f] = res[f]]_vars

C11_Witness ==
    /\ res.pc = "resolved"
    /\ res.blocks = 2
    /\ res.offered = Fields
    /\ res.author = "Jane Doe"
    /\ res.source = "The Post"
    /\ res.date = "2023-12-31"

\* C12: when the raw date is empty or does not parse, the formatted date is the
\* current date in the long form "Month Day, Year".
C12_CurrentDateLongForm ==
    (res.pc = "resolved" /\ (res.date = "" \/ ParseDate(res.date) = <<>>)) =>
        res.formattedDate = LongForm(res.today[1])

\* a profile URL: an https URL with a path below /profile/
IsProfileUrl(u) ==
    /\ StartsWith(u, "https://")
    /\ IndexOf(u, "/profile/") # -1
    /\ Char(u, Len(u)) # "/"

LastSegment(u) == SliceFrom(u, LastIndexOf(u, "/") + 1)

\* C16: when the author is still empty after the scan and the author
\* heuristics and article:author is a comma-separated list of profile URLs, the
\* author is the last path segment of each URL, dashes replaced by spaces and
\* words title-cased, joined by ", ".
C16_ProfileNames ==
    LET urls == SplitOn(res.article, ",")
    IN  (/\ res.pc = "resolved"
         /\ res.article # ""
         /\ \A i \in 1..Len(urls) : IsProfileUrl(Trim(urls[i])))
        => res.author =
             Join([i \in 1..Len(urls) |->
                     TitleCase(ReplaceAll(LastSegment(Trim(urls[i])), "-", " "))], ", ")

(***************************************************************************)
(* Properties of two requests, under SpecTwo                               *)
(***************************************************************************)

\* the statuses received among the outcomes of the markup fetches
Received(outs) == SelectSeq(outs, LAMBDA o : o.kind = "response")

\* a run of the retry loop that is over: a response that is not a 5xx, or
\* three attempts
LoopOver(outs) ==
    /\ Len(outs) \in 1..3
    /\ \A i \in 1..(Len(outs) - 1) :
          outs[i].kind = "throw" \/ outs[i].status >= 500
    /\ \/ Len(outs) = 3
       \/ outs[Len(outs)].kind = "response" /\ outs[Len(outs)].status < 500

\* what one request run alone answers to the fetch outcomes outs (<<>> when it
\* goes on to read the markup): the network error of the last attempt when no
\* response was received, else by the status received last
AloneResponses(outs) ==
    LET got == Received(outs)
        s == got[Len(got)].status
    IN  IF got = <<>>
        THEN <<ErrorResponse(500, <<"Failed to fetch article: ", outs[Len(outs)].reason>>)>>
        ELSE IF s = 403 THEN <<ErrorResponse(403, Blocked)>>
        ELSE IF s >= 200 /\ s <= 299 THEN <<>>
        ELSE <<ErrorResponse(s, <<"Failed to fetch article: ", ToString(s)>>)>>

TwoEnded(l) == l.pc \in {"done", "readBody"}

\* C18: two requests handled at once are independent: each one's response is
\* the response it gives alone to the same origin outcomes, a step of one
\* request leaves the locals of the other and the fonts as they are, and a
\* request that has not ended can take a step while the other is in a backoff.
C18_Independent ==
    /\ [](\A r \in Requests :
            /\ TwoEnded(reqs.of[r]) =>
                  /\ LoopOver(reqs.of[r].outcomes)
                  /\ reqs.of[r].responses = AloneResponses(reqs.of[r].outcomes)
                  /\ reqs.of[r].pc = "done" <=> reqs.of[r].responses # <<>>
            /\ (~TwoEnded(reqs.of[r]) /\ \E q \in Requests \ {r} : reqs.of[q].pc = "backoff")
                  => ENABLED TwoStep(r))
    /\ [][/\ reqs'.fonts = reqs.fonts
          /\ \E r \in Requests : \A q \in Requests \ {r} : reqs'.of[q] = reqs.of[q]]_vars

C18_Witness ==
    /\ reqs.of[1].pc = "done"
    /\ reqs.of[2].pc = "done"
    /\ Len(reqs.of[1].outcomes) = 3
    /\ reqs.of[1].outcomes[3].kind = "throw"
    /\ reqs.of[1].htmlResponse = 503
    /\ reqs.of[2].htmlResponse = 0
    /\ reqs.of[2].lastError # reqs.of[1].lastError
    /\ reqs.of[1].responses # reqs.of[2].responses

\* one request run alone (Spec) answers as AloneResponses says
AloneAgrees ==
    (body = "url_valid" /\ pc \notin {"start", "loop", "fetching", "backoff", "afterLoop"}) =>
        /\ LoopOver(outcomes)
        /\ IF AloneResponses(outcomes) # <<>>
           THEN responses = AloneResponses(outcomes)
           ELSE IsOk(htmlResponse)

(***************************************************************************)
(* Further properties of the card, under SpecCard                          *)
(***************************************************************************)

TierChosen == card.pc \notin {"clean", "wrapAuthor"}

\* C21: the tier follows the length L of the cleaned title, one tier for every
\* L: L > 80 gives font 36, line height 44, budget 35; 50 < L <= 80 gives 42,
\* 50, 30; L <= 50 gives 48, 58, 25; the budget of the author is 60 whatever
\* the tier.
C21_Tier ==
    LET L == Len(card.cleanTitle)
        t == card.tier
    IN  /\ TierChosen =>
              /\ L > 80 =>
                    t.titleFontSize = 36 /\ t.lineHeight = 44 /\ t.maxCharsPerLine = 35
              /\ (L > 50 /\ L <= 80) =>
                    t.titleFontSize = 42 /\ t.lineHeight = 50 /\ t.maxCharsPerLine = 30
              /\ L <= 50 =>
                    t.titleFontSize = 48 /\ t.lineHeight = 58 /\ t.maxCharsPerLine = 25
        /\ card.pc = "wrapTitle" => card.budget = t.maxCharsPerLine
        /\ card.pc = "wrapAuthor" => card.budget = 60
        /\ TierChosen => WithinBudget(card.authorLines, 60)

C21_Witness ==
    /\ card.pc = "done"
    /\ Len(card.cleanTitle) = 80
    /\ card.tier.titleFontSize = 42
    /\ Len(card.authorLines) > 2

\* C22: an image wider than high is resized to 800 x (1000 - textBoxHeight)
\* under an opaque white panel; any other image (taller, square, of unknown
\* size) is resized to 800 x 1000 under a panel of 85% white; in both branches
\* the panel is composited at the offset 1000 - textBoxHeight.
C22_Branch ==
    /\ card.pc \in {"composite", "done"} =>
          /\ card.resizeWidth = 800
          /\ IF card.imageSize[1] > card.imageSize[2]
             THEN /\ card.resizeHeight = 1000 - card.textHeight
                  /\ card.panel[1].backgroundColor = "#FFFFFF"
             ELSE /\ card.resizeHeight = 1000
                  /\ card.panel[1].backgroundColor = "rgba(255, 255, 255, 0.85)"
    /\ card.pc = "done" => card.top = 1000 - card.textHeight

C22_Witness ==
    /\ card.pc = "done"
    /\ card.imageSize = <<800, 800>>
    /\ card.resizeHeight = 1000
    /\ card.top > 0
    /\ card.top < 1000

\* the positions of a panel from top to bottom, in tenths
PanelYs(p) ==
    [i \in 1..Len(p.title) |-> p.title[i].y] \o <<p.separatorY>>
    \o [i \in 1..Len(p.author) |-> p.author[i].y]
    \o [i \in 1..Len(p.dateSource) |-> p.dateSource[i].y]

\* C25: in the panel the positions increase strictly from the title lines
\* (line i at 20 + 0.85 x fontSize + i x lineHeight) over the separator (12
\* below the last title line) and the author lines when included (18 apart,
\* from 2 + 15 below the separator) to the source/date line when included, and
\* each lies in [0, textBoxHeight).
C25_PanelOrder ==
    \A k \in 1..Len(card.panel) :
        LET p == card.panel[k]
            ys == PanelYs(p)
            n == Len(p.title)
        IN  /\ n = Len(card.titleLines)
            /\ \A i \in 1..n :
                  p.title[i].y = 200 + (card.tier.titleFontSize * 85) \div 10
                                 + (i - 1) * card.tier.lineHeight * 10
            /\ p.separatorY = p.title[n].y + 120
            /\ Len(p.author) = (IF card.incA THEN Len(card.authorLines) ELSE 0)
            /\ \A i \in 1..Len(p.author) :
                  p.author[i].y = p.separatorY + 170 + (i - 1) * 180
            /\ Len(p.dateSource) = (IF card.incD THEN 1 ELSE 0)
            /\ \A i \in 1..(Len(ys) - 1) : ys[i] < ys[i + 1]
            /\ \A i \in 1..Len(ys) : ys[i] >= 0 /\ ys[i] < card.textHeight * 10

C25_Witness ==
    /\ card.pc = "done"
    /\ card.incA
    /\ card.incD
    /\ Len(card.panel[1].title) > 3
    /\ Len(card.panel[1].author) > 2
    /\ Len(card.panel[1].dateSource) = 1

\* C27: the wrap loses nothing: the lines after the first, joined by single
\* spaces, are the input; during the wrap, the lines after the first and the
\* words still to come are.
C27_WrapLossless ==
    /\ card.pc = "wrapAuthor" =>
          Join(Tail(card.authorLines) \o card.words, " ") = card.cleanAuthor
    /\ card.pc = "wrapTitle" =>
          Join(Tail(card.titleLines) \o card.words, " ") = card.cleanTitle
    /\ TierChosen => Join(Tail(card.authorLines), " ") = card.cleanAuthor
    /\ LaidOut => Join(Tail(card.titleLines), " ") = card.cleanTitle

C27_Witness ==
    /\ card.pc = "done"
    /\ Len(card.titleLines) > 3
    /\ \E i \in 2..Len(card.titleLines) : ~IsSingleWord(card.titleLines[i])
    /\ Len(card.authorLines) > 2
    /\ Join(Tail(card.titleLines), " ") = card.title

\* C28: the output of the wrap starts with the empty line and has at least two
\* lines, for the title and for the author, so the layout counts at least two
\* title lines and two author lines.
C28_LeadingEmptyLine ==
    /\ TierChosen => Len(card.authorLines) >= 2 /\ card.authorLines[1] = ""
    /\ LaidOut => Len(card.titleLines) >= 2 /\ card.titleLines[1] = ""

C28_Witness ==
    /\ card.pc = "done"
    /\ card.cleanAuthor = ""
    /\ card.authorLines = <<"", "">>
    /\ card.titleLines = <<"", "end">>

C23_StopsScanning == res.lateBlocks = 0 /\ res.late = 0

\* the stages of a resolution that was not aborted
ResolveStages == {"scan", "metaAuthor", "metaDate", "metaSource", "hostSource",
                  "defaultAuthor", "formatDate", "resolved"}

\* a step in which the scan caught a throw
CaughtStep == res'.caught > res.caught

\* C24: a structured-data block that fails to parse, or whose processing
\* throws, does not abort the resolution: the scan goes on with the next
\* block and keeps the fields it has; every field a later block or a fallback
\* has a value for is non-empty afterwards, and the resolution ends with an
\* author, a source and a formatted date
C24_BadBlockSwallowed ==
    /\ [][CaughtStep => /\ res'.pc = "scan"
                        /\ res'.left = 0
                        /\ \A f \in Fields : res'[f] = res[f]]_vars
    /\ [](res.pc \in ResolveStages)
    /\ [](res.caught > 0 => \A f \in res.gave : res[f] # "")
    /\ [](res.caught > 0 /\ res.pc = "resolved"
            => res.author # "" /\ res.source # "" /\ res.formattedDate # "")

C24_Witness ==
    /\ res.pc = "scan"
    /\ res.caught > 0
    /\ res.blocks > res.caught
    /\ res.gave = Fields


(***************************************************************************)
(* Further properties of the request, under Spec                           *)
(***************************************************************************)

\* the outcome of the last markup-fetch attempt that was performed
LastOutcome == outcomes[Len(outcomes)]

\* C26: the response is determined by the last markup-fetch attempt: when it
\* ended in a network-level failure the request returns the 500 network error
\* carrying that failure, also after an earlier attempt received a 5xx response
C26_LastAttemptDecides ==
    (pc = "done" /\ outcomes # <<>> /\ LastOutcome.kind = "throw")
        => responses = <<ErrorResponse(500, FailedToFetch(LastOutcome.reason))>>


\* the stages of the handler in the order of the source, the last first
StageRank(p) ==
    CASE p = "done" -> 0
      [] p = "render" -> 1
      [] p = "imageBody" -> 2
      [] p = "imageFetching" -> 3
      [] p = "readBody" -> 4
      [] p = "afterLoop" -> 5
      [] p \in {"loop", "fetching", "backoff"} -> 6
      [] p = "start" -> 7

\* the positions of one iteration of the retry loop, the last first
LoopRank(p) ==
    CASE p = "loop" -> 3
      [] p = "fetching" -> 2
      [] p = "backoff" -> 1
      [] OTHER -> 0

\* what is left of the retry loop: iterations, then positions
LoopLeft(p, a) == (maxRetries - a) * 3 + LoopRank(p)

\* a step goes to a later stage, or further in the retry loop
Advances ==
    \/ StageRank(pc') < StageRank(pc)
    \/ /\ StageRank(pc') = StageRank(pc)
       /\ LoopLeft(pc', attempt') < LoopLeft(pc, attempt)

\* C30: when every outbound fetch and every backoff sleep completes, the
\* request returns a response: the retry loop runs at most maxRetries
\* iterations, every step goes forward and no stage is entered again, and
\* exactly one response is returned
C30_Terminates ==
    /\ <>(pc = "done" /\ Len(responses) = 1)
    /\ [](attempt <= maxRetries /\ fetchCount <= maxRetries)
    /\ [][Advances]_vars

C30_Witness ==
    /\ pc = "done"
    /\ Len(outcomes) = maxRetries
    /\ sleepsDone = maxRetries - 1
    /\ Len(responses) = 1
    /\ responses[1].status = 200

====
